---- MODULE Spec2Model ----
(***************************************************************************)
(* The simple-option contract of src/src/contract.rs as a state machine.   *)
(* One storage item (STATE in the code, the variable state here) holds at  *)
(* most one option record; the entry points instantiate, execute           *)
(* (Transfer / Execute / Burn) and query are the actions.  Each action     *)
(* models one whole call: the ledger hands it the caller and the funds     *)
(* (info) and the message (msg), it reads the storage, runs the guards in  *)
(* the order of the code, and leaves the call's                            *)
(* Result<Response, ContractError> in the variable response.  The ledger   *)
(* runs one call at a time: it takes the response (Deliver) before the     *)
(* next call or the next block.  While it does, it executes the bank       *)
(* messages of the response: payouts lists, for the option created last,   *)
(* the calls whose response paid out its collateral.                       *)
(***************************************************************************)
EXTENDS Integers, Sequences, FiniteSets, TLC

VARIABLES state, contract_info, height, info, msg, response, payouts

vars == <<state, contract_info, height, info, msg, response, payouts>>

(***************************************************************************)
(* Bounds of the model.                                                    *)
(***************************************************************************)
MaxHeight == 2
MaxExpires == 2
MaxCoins == 2
MaxPayouts == 2

(***************************************************************************)
(* Inputs: the senders, and the coin lists a call can carry.               *)
(***************************************************************************)
Addrs == {"creator", "someone", "anyone"}

Coin == {[denom |-> "BTC", amount |-> 1], [denom |-> "ETH", amount |-> 40]}

Funds == UNION {[1..n -> Coin] : n \in 0..MaxCoins}

Collaterals == {<<>>, <<[denom |-> "BTC", amount |-> 1]>>}

Heights == 0..MaxExpires

(***************************************************************************)
(* An empty storage slot, and the record the slot holds otherwise.         *)
(***************************************************************************)
NONE == [exists |-> FALSE]

State_swapped(sender, funds, counter_offer, expires) ==
    [creator |-> sender, owner |-> sender, collateral |-> counter_offer,
     counter_offer |-> funds, expires |-> expires]

State(sender, funds, counter_offer, expires) ==
    [creator |-> sender, owner |-> sender, collateral |-> funds,
     counter_offer |-> counter_offer, expires |-> expires]

CONTRACT_NAME == "crates.io:simple-option"

CONTRACT_VERSION == "CARGO_PKG_VERSION"

(***************************************************************************)
(* The context and the message of a call; no call is in flight when msg is *)
(* NoMsg.                                                                  *)
(***************************************************************************)
MessageInfo(sender, funds) == [sender |-> sender, funds |-> funds]

NoInfo == [sender |-> "", funds |-> <<>>]

InstantiateMsg(counter_offer, expires) ==
    [type |-> "Instantiate", counter_offer |-> counter_offer, expires |-> expires]

ExecuteMsgTransfer(recipient) == [type |-> "Transfer", recipient |-> recipient]

ExecuteMsgExecute == [type |-> "Execute"]

ExecuteMsgBurn == [type |-> "Burn"]

QueryMsgConfig == [type |-> "Config"]

NoMsg == [type |-> "None"]

(***************************************************************************)
(* Messages, attributes and the two shapes of a call's result.             *)
(***************************************************************************)
BankMsgSend(to_address, amount) == [to_address |-> to_address, amount |-> amount]

Attribute(key, value) == [key |-> key, value |-> value]

Ok(messages, attributes, data) ==
    [err |-> "ok", val |-> "", messages |-> messages,
     attributes |-> attributes, data |-> data]

Err(err, val) ==
    [err |-> err, val |-> val, messages |-> <<>>, attributes |-> <<>>, data |-> NONE]

NoResponse == Err("none", "")

(***************************************************************************)
(* format!("{:?}", coins): the Debug rendering of a Vec<Coin>.             *)
(***************************************************************************)
DebugCoin(c) ==
    "Coin { denom: \"" \o c.denom \o "\", amount: Uint128(" \o ToString(c.amount) \o ") }"

RECURSIVE DebugList(_)
DebugList(coins) ==
    IF Len(coins) = 0 THEN ""
    ELSE IF Len(coins) = 1 THEN DebugCoin(coins[1])
    ELSE DebugCoin(coins[1]) \o ", " \o DebugList(Tail(coins))

DebugCoins(coins) == "[" \o DebugList(coins) \o "]"

(***************************************************************************)
(* The messages and attributes the handlers put in their responses.        *)
(***************************************************************************)
transfer_attributes(recipient) ==
    <<Attribute("method", "try_transfer"), Attribute("new owner", recipient)>>

execute_messages_to_creator(st) ==
    <<BankMsgSend(st.creator, st.counter_offer), BankMsgSend(st.creator, st.collateral)>>

execute_messages_swapped(st) ==
    <<BankMsgSend(st.owner, st.collateral), BankMsgSend(st.creator, st.counter_offer)>>

execute_messages(st) ==
    <<BankMsgSend(st.creator, st.counter_offer), BankMsgSend(st.owner, st.collateral)>>

burn_messages_to_owner(st) == <<BankMsgSend(st.owner, st.collateral)>>

burn_messages(st) == <<BankMsgSend(st.creator, st.collateral)>>

Init ==
    /\ state = NONE
    /\ contract_info = NONE
    /\ height = 0
    /\ info = NoInfo
    /\ msg = NoMsg
    /\ response = NoResponse
    /\ payouts = <<>>

(***************************************************************************)
(* The ledger between two calls: it takes the response of the call that    *)
(* ran, and it produces the next block (env.block.height grows).           *)
(***************************************************************************)
Deliver ==
    /\ msg # NoMsg
    /\ info' = NoInfo
    /\ msg' = NoMsg
    /\ response' = NoResponse
    /\ payouts' = IF response.err # "ok" THEN payouts
                  ELSE IF msg.type = "Instantiate" THEN <<>>
                  ELSE IF msg.type \in {"Execute", "Burn"} /\ Len(payouts) < MaxPayouts
                  THEN Append(payouts, msg.type)
                  ELSE payouts
    /\ UNCHANGED <<state, contract_info, height>>

NextBlock ==
    /\ msg = NoMsg
    /\ height < MaxHeight
    /\ height' = height + 1
    /\ UNCHANGED <<state, contract_info, info, msg, response, payouts>>

(***************************************************************************)
(* The handlers.                                                           *)
(***************************************************************************)
instantiate_once(sender, funds, counter_offer, expires) ==
    /\ info' = MessageInfo(sender, funds)
    /\ msg' = InstantiateMsg(counter_offer, expires)
    /\ IF expires <= height
       THEN /\ response' = Err("Expired", "")
            /\ UNCHANGED <<state, contract_info, height>>
       ELSE IF contract_info # NONE
       THEN /\ response' = Err("Unauthorized", "")
            /\ UNCHANGED <<state, contract_info, height>>
       ELSE /\ contract_info' = [contract |-> CONTRACT_NAME, version |-> CONTRACT_VERSION]
            /\ state' = State(sender, funds, counter_offer, expires)
            /\ response' = Ok(<<>>, <<>>, NONE)
            /\ UNCHANGED height

instantiate_save_first(sender, funds, counter_offer, expires) ==
    /\ info' = MessageInfo(sender, funds)
    /\ msg' = InstantiateMsg(counter_offer, expires)
    /\ contract_info' = [contract |-> CONTRACT_NAME, version |-> CONTRACT_VERSION]
    /\ state' = State(sender, funds, counter_offer, expires)
    /\ response' = IF expires <= height THEN Err("Expired", "") ELSE Ok(<<>>, <<>>, NONE)
    /\ UNCHANGED height

instantiate(sender, funds, counter_offer, expires) ==
    /\ info' = MessageInfo(sender, funds)
    /\ msg' = InstantiateMsg(counter_offer, expires)
    /\ IF expires <= height
       THEN /\ response' = Err("Expired", "")
            /\ UNCHANGED <<state, contract_info, height>>
       ELSE /\ contract_info' = [contract |-> CONTRACT_NAME, version |-> CONTRACT_VERSION]
            /\ state' = State(sender, funds, counter_offer, expires)
            /\ response' = Ok(<<>>, <<>>, NONE)
            /\ UNCHANGED height

try_transfer_sets_creator(sender, funds, recipient) ==
    /\ info' = MessageInfo(sender, funds)
    /\ msg' = ExecuteMsgTransfer(recipient)
    /\ IF state = NONE
       THEN /\ response' = Err("NotFound", "")
            /\ UNCHANGED <<state, contract_info, height>>
       ELSE IF sender # state.owner
       THEN /\ response' = Err("Unauthorized", "")
            /\ UNCHANGED <<state, contract_info, height>>
       ELSE /\ state' = [state EXCEPT !.owner = recipient, !.creator = recipient]
            /\ response' = Ok(<<>>, transfer_attributes(recipient), NONE)
            /\ UNCHANGED <<contract_info, height>>

try_transfer_unchecked(sender, funds, recipient) ==
    /\ info' = MessageInfo(sender, funds)
    /\ msg' = ExecuteMsgTransfer(recipient)
    /\ IF state = NONE
       THEN /\ response' = Err("NotFound", "")
            /\ UNCHANGED <<state, contract_info, height>>
       ELSE /\ state' = [state EXCEPT !.owner = recipient]
            /\ response' = Ok(<<>>, transfer_attributes(recipient), NONE)
            /\ UNCHANGED <<contract_info, height>>

try_transfer(sender, funds, recipient) ==
    /\ info' = MessageInfo(sender, funds)
    /\ msg' = ExecuteMsgTransfer(recipient)
    /\ IF state = NONE
       THEN /\ response' = Err("NotFound", "")
            /\ UNCHANGED <<state, contract_info, height>>
       ELSE IF sender # state.owner
       THEN /\ response' = Err("Unauthorized", "")
            /\ UNCHANGED <<state, contract_info, height>>
       ELSE /\ state' = [state EXCEPT !.owner = recipient]
            /\ response' = Ok(<<>>, transfer_attributes(recipient), NONE)
            /\ UNCHANGED <<contract_info, height>>

try_execute_expiry_first(sender, funds) ==
    /\ info' = MessageInfo(sender, funds)
    /\ msg' = ExecuteMsgExecute
    /\ IF state = NONE
       THEN /\ response' = Err("NotFound", "")
            /\ UNCHANGED <<state, contract_info, height>>
       ELSE IF height >= state.expires
       THEN /\ response' = Err("Expired", "")
            /\ UNCHANGED <<state, contract_info, height>>
       ELSE IF sender # state.owner
       THEN /\ response' = Err("Unauthorized", "")
            /\ UNCHANGED <<state, contract_info, height>>
       ELSE IF funds # state.counter_offer
       THEN /\ response' = Err("DiffCounterOffer", DebugCoins(state.counter_offer))
            /\ UNCHANGED <<state, contract_info, height>>
       ELSE /\ response' = Ok(execute_messages(state),
                              <<Attribute("method", "try_execute")>>, NONE)
            /\ state' = NONE
            /\ UNCHANGED <<contract_info, height>>

try_execute_late(sender, funds) ==
    /\ info' = MessageInfo(sender, funds)
    /\ msg' = ExecuteMsgExecute
    /\ IF state = NONE
       THEN /\ response' = Err("NotFound", "")
            /\ UNCHANGED <<state, contract_info, height>>
       ELSE IF sender # state.owner
       THEN /\ response' = Err("Unauthorized", "")
            /\ UNCHANGED <<state, contract_info, height>>
       ELSE IF height > state.expires
       THEN /\ response' = Err("Expired", "")
            /\ UNCHANGED <<state, contract_info, height>>
       ELSE IF funds # state.counter_offer
       THEN /\ response' = Err("DiffCounterOffer", DebugCoins(state.counter_offer))
            /\ UNCHANGED <<state, contract_info, height>>
       ELSE /\ response' = Ok(execute_messages(state),
                              <<Attribute("method", "try_execute")>>, NONE)
            /\ state' = NONE
            /\ UNCHANGED <<contract_info, height>>

try_execute(sender, funds) ==
    /\ info' = MessageInfo(sender, funds)
    /\ msg' = ExecuteMsgExecute
    /\ IF state = NONE
       THEN /\ response' = Err("NotFound", "")
            /\ UNCHANGED <<state, contract_info, height>>
       ELSE IF sender # state.owner
       THEN /\ response' = Err("Unauthorized", "")
            /\ UNCHANGED <<state, contract_info, height>>
       ELSE IF height >= state.expires
       THEN /\ response' = Err("Expired", "")
            /\ UNCHANGED <<state, contract_info, height>>
       ELSE IF funds # state.counter_offer
       THEN /\ response' = Err("DiffCounterOffer", DebugCoins(state.counter_offer))
            /\ UNCHANGED <<state, contract_info, height>>
       ELSE /\ response' = Ok(execute_messages(state),
                              <<Attribute("method", "try_execute")>>, NONE)
            /\ state' = NONE
            /\ UNCHANGED <<contract_info, height>>

(***************************************************************************)
(* try_burn: what a burn by sender with funds returns and stores in the    *)
(* current state; the handler never writes the storage.                    *)
(***************************************************************************)
burn_result_creator_only(sender, funds) ==
    [response |->
        IF state = NONE THEN Err("NotFound", "")
        ELSE IF sender # state.creator THEN Err("Unauthorized", "")
        ELSE IF height < state.expires
        THEN Err("CustomError", "Option not yet expired")
        ELSE IF funds # <<>>
        THEN Err("CustomError", "dont send funds with burn")
        ELSE Ok(burn_messages(state), <<Attribute("method", "try_burn")>>, NONE),
     stored |-> state]

burn_result(sender, funds) ==
    [response |->
        IF state = NONE THEN Err("NotFound", "")
        ELSE IF height < state.expires
        THEN Err("CustomError", "Option not yet expired")
        ELSE IF funds # <<>>
        THEN Err("CustomError", "dont send funds with burn")
        ELSE Ok(burn_messages(state), <<Attribute("method", "try_burn")>>, NONE),
     stored |-> state]

try_burn(sender, funds) ==
    /\ info' = MessageInfo(sender, funds)
    /\ msg' = ExecuteMsgBurn
    /\ response' = burn_result(sender, funds).response
    /\ state' = burn_result(sender, funds).stored
    /\ UNCHANGED <<contract_info, height>>

query_config_consuming ==
    /\ info' = NoInfo
    /\ msg' = QueryMsgConfig
    /\ response' = IF state = NONE
                   THEN Err("NotFound", "")
                   ELSE Ok(<<>>, <<>>, state)
    /\ state' = NONE
    /\ UNCHANGED <<contract_info, height>>

query_config ==
    /\ info' = NoInfo
    /\ msg' = QueryMsgConfig
    /\ response' = IF state = NONE
                   THEN Err("NotFound", "")
                   ELSE Ok(<<>>, <<>>, state)
    /\ UNCHANGED <<state, contract_info, height>>

(***************************************************************************)
(* The entry points, called by the ledger with the inputs of one call.     *)
(***************************************************************************)
Instantiate ==
    /\ msg = NoMsg
    /\ \E sender \in Addrs, funds \in Collaterals, counter_offer \in Funds,
          expires \in Heights :
            instantiate(sender, funds, counter_offer, expires)
    /\ UNCHANGED payouts

Transfer ==
    /\ msg = NoMsg
    /\ \E sender \in Addrs, funds \in Collaterals, recipient \in Addrs :
            try_transfer(sender, funds, recipient)
    /\ UNCHANGED payouts

Execute ==
    /\ msg = NoMsg
    /\ \E sender \in Addrs, funds \in Funds : try_execute(sender, funds)
    /\ UNCHANGED payouts

Burn ==
    /\ msg = NoMsg
    /\ \E sender \in Addrs, funds \in Funds : try_burn(sender, funds)
    /\ UNCHANGED payouts

Query ==
    /\ msg = NoMsg
    /\ query_config
    /\ UNCHANGED payouts

Next ==
    \/ NextBlock
    \/ Deliver
    \/ Instantiate
    \/ Transfer
    \/ Execute
    \/ Burn
    \/ Query

Spec == Init /\ [][Next]_vars

(***************************************************************************)
(* C1: a successful exercise (the caller is the owner, the height is below *)
(* expires, the funds equal counter_offer) returns exactly two messages,   *)
(* first counter_offer to the creator and then the collateral to the       *)
(* owner, and removes the record; a query_config on the removed record     *)
(* fails with NotFound.                                                    *)
(***************************************************************************)
C1_ExerciseSettlesAndDeletes ==
    [][ /\ ( /\ msg'.type = "Execute"
             /\ state # NONE
             /\ info'.sender = state.owner
             /\ height < state.expires
             /\ info'.funds = state.counter_offer )
           => /\ response'.err = "ok"
              /\ response'.messages =
                   << [to_address |-> state.creator, amount |-> state.counter_offer],
                      [to_address |-> state.owner, amount |-> state.collateral] >>
              /\ state' = NONE
        /\ (msg'.type = "Config" /\ state = NONE) => response'.err = "NotFound"
      ]_vars

C1_Witness ==
    /\ msg.type = "Execute"
    /\ response.err = "ok"
    /\ Len(response.messages) = 2
    /\ response.messages[1].to_address # response.messages[2].to_address
    /\ response.messages[1].amount # response.messages[2].amount
    /\ state = NONE

(***************************************************************************)
(* C2: in the state right after a successful burn the record is gone.      *)
(***************************************************************************)
C2_BurnDeletesRecord ==
    (msg.type = "Burn" /\ response.err = "ok") => state = NONE

(***************************************************************************)
(* C3: for an existing record, burn below expires fails with "Option not   *)
(* yet expired" for every caller and every funds; at or after expires it   *)
(* fails with "dont send funds with burn" when funds are attached, and     *)
(* otherwise succeeds with exactly one message, the whole collateral to    *)
(* the creator.                                                            *)
(***************************************************************************)
C3_BurnGuardsAndSettlement ==
    [][ (msg'.type = "Burn" /\ state # NONE)
        => IF height < state.expires
           THEN /\ response'.err = "CustomError"
                /\ response'.val = "Option not yet expired"
                /\ response'.messages = <<>>
           ELSE IF info'.funds # <<>>
           THEN /\ response'.err = "CustomError"
                /\ response'.val = "dont send funds with burn"
                /\ response'.messages = <<>>
           ELSE /\ response'.err = "ok"
                /\ response'.messages =
                     << [to_address |-> state.creator, amount |-> state.collateral] >>
      ]_vars

C3_Witness ==
    /\ msg.type = "Burn"
    /\ response.err = "ok"
    /\ Len(response.messages) = 1
    /\ info.sender = "anyone"
    /\ state # NONE
    /\ state.owner # state.creator
    /\ state.counter_offer # <<>>
    /\ state.collateral # <<>>
    /\ response.messages[1].to_address = state.creator

(***************************************************************************)
(* C4: create fails with Expired and stores nothing when expires is at or  *)
(* below the height; otherwise it succeeds without messages and the stored *)
(* record is {creator: caller, owner: caller, collateral: funds,           *)
(* counter_offer, expires}, which is what query_config returns.            *)
(***************************************************************************)
C4_CreateStoresInputs ==
    [][ /\ (msg'.type = "Instantiate")
           => IF msg'.expires <= height
              THEN /\ response'.err = "Expired"
                   /\ state' = state
                   /\ contract_info' = contract_info
              ELSE /\ response'.err = "ok"
                   /\ response'.messages = <<>>
                   /\ state' = [creator |-> info'.sender, owner |-> info'.sender,
                                collateral |-> info'.funds,
                                counter_offer |-> msg'.counter_offer,
                                expires |-> msg'.expires]
        /\ (msg'.type = "Config" /\ state # NONE)
           => (response'.err = "ok" /\ response'.data = state)
      ]_vars

C4_Witness ==
    /\ msg.type = "Instantiate"
    /\ response.err = "ok"
    /\ state # NONE
    /\ state.creator = info.sender
    /\ state.owner = info.sender
    /\ state.collateral # <<>>
    /\ state.collateral # state.counter_offer
    /\ state.expires > height

(***************************************************************************)
(* C5: for an existing record, transfer by anyone but the owner fails with *)
(* Unauthorized and leaves the owner as it was; by the owner it succeeds,  *)
(* sets the owner to the recipient, returns no message and exactly two     *)
(* attributes, the method name and the new owner.                          *)
(***************************************************************************)
C5_TransferOnlyByOwner ==
    [][ (msg'.type = "Transfer" /\ state # NONE)
        => IF info'.sender # state.owner
           THEN /\ response'.err = "Unauthorized"
                /\ state' = state
           ELSE /\ response'.err = "ok"
                /\ state' # NONE
                /\ state'.owner = msg'.recipient
                /\ response'.messages = <<>>
                /\ response'.attributes =
                     << [key |-> "method", value |-> "try_transfer"],
                        [key |-> "new owner", value |-> msg'.recipient] >>
      ]_vars

C5_Witness ==
    /\ msg.type = "Transfer"
    /\ response.err = "ok"
    /\ state # NONE
    /\ state.owner # state.creator
    /\ state.owner = msg.recipient
    /\ Len(response.attributes) = 2
    /\ response.attributes[2].value = state.owner

(***************************************************************************)
(* Two coin lists hold the same coins with the same multiplicities.        *)
(***************************************************************************)
Count(coins, c) == Cardinality({i \in 1..Len(coins) : coins[i] = c})

SameMultiset(a, b) == \A c \in Coin : Count(a, c) = Count(b, c)

(***************************************************************************)
(* C6: the funds check of exercise is multiset equality: an owner's call   *)
(* below expires succeeds when the funds and counter_offer hold the same   *)
(* coins in any order, and fails with DiffCounterOffer and no message when *)
(* they differ as multisets.                                               *)
(***************************************************************************)
C6_FundsCheckIsMultisetEquality ==
    [][ ( /\ msg'.type = "Execute"
          /\ state # NONE
          /\ info'.sender = state.owner
          /\ height < state.expires )
        => IF SameMultiset(info'.funds, state.counter_offer)
           THEN response'.err = "ok"
           ELSE response'.err = "DiffCounterOffer" /\ response'.messages = <<>>
      ]_vars

(***************************************************************************)
(* C7: a successful exercise or burn removes the record, and while no      *)
(* record exists every transfer, exercise, burn and query_config fails     *)
(* (exercise with NotFound).                                               *)
(***************************************************************************)
C7_DestroyedUntilCreate ==
    [][ /\ (msg'.type \in {"Execute", "Burn"} /\ response'.err = "ok")
           => state' = NONE
        /\ (state = NONE /\ msg'.type \in {"Transfer", "Execute", "Burn", "Config"})
           => /\ response'.err # "ok"
              /\ state' = NONE
              /\ msg'.type = "Execute" => response'.err = "NotFound"
      ]_vars

(***************************************************************************)
(* C8: create fails when a record is present, and leaves that record as it *)
(* was.                                                                    *)
(***************************************************************************)
C8_CreateFailsWhenActive ==
    [][ (msg'.type = "Instantiate" /\ state # NONE)
        => (response'.err # "ok" /\ state' = state)
      ]_vars

(***************************************************************************)
(* C9 as stated: for an existing record at a height at or after expires,   *)
(* exercise fails with Expired whatever the funds and whoever the caller.  *)
(***************************************************************************)
C9_ExpiredWhateverCaller ==
    [][ (msg'.type = "Execute" /\ state # NONE /\ height >= state.expires)
        => response'.err = "Expired"
      ]_vars

(***************************************************************************)
(* C9 amended: for an existing record at a height at or after expires,     *)
(* exercise fails whatever the funds: with Expired when the caller is the  *)
(* owner, with Unauthorized when the caller is anyone else.                *)
(***************************************************************************)
C9_ExpiredForOwner ==
    [][ (msg'.type = "Execute" /\ state # NONE /\ height >= state.expires)
        => /\ response'.err = IF info'.sender = state.owner
                              THEN "Expired" ELSE "Unauthorized"
           /\ response'.messages = <<>>
      ]_vars

C9_Witness ==
    /\ msg.type = "Execute"
    /\ response.err = "Expired"
    /\ state # NONE
    /\ height = state.expires
    /\ info.sender = state.owner
    /\ info.funds = state.counter_offer

(***************************************************************************)
(* C10: query_config changes nothing: with a record it returns the five    *)
(* stored fields, without one it fails with NotFound, and the storage and  *)
(* the height after the call are those before it.                          *)
(***************************************************************************)
C10_QueryIsReadOnly ==
    [][ (msg'.type = "Config")
        => /\ state' = state
           /\ contract_info' = contract_info
           /\ height' = height
           /\ IF state = NONE
              THEN response'.err = "NotFound"
              ELSE /\ response'.err = "ok"
                   /\ response'.data.creator = state.creator
                   /\ response'.data.owner = state.owner
                   /\ response'.data.collateral = state.collateral
                   /\ response'.data.counter_offer = state.counter_offer
                   /\ response'.data.expires = state.expires
      ]_vars

C10_Witness ==
    /\ msg.type = "Config"
    /\ response.err = "ok"
    /\ state # NONE
    /\ state.owner # state.creator
    /\ response.data = state

(***************************************************************************)
(* C11: exercise reports the first precondition that fails, in this order: *)
(* no record gives NotFound; a caller who is not the owner gives           *)
(* Unauthorized, also when the option is expired or the funds differ; a    *)
(* height at or after expires gives Expired, also when the funds differ;   *)
(* funds that differ from counter_offer give DiffCounterOffer.             *)
(***************************************************************************)
C11_ExerciseGuardOrder ==
    [][ (msg'.type = "Execute")
        => response'.err =
             IF state = NONE THEN "NotFound"
             ELSE IF info'.sender # state.owner THEN "Unauthorized"
             ELSE IF height >= state.expires THEN "Expired"
             ELSE IF info'.funds # state.counter_offer THEN "DiffCounterOffer"
             ELSE "ok"
      ]_vars

C11_Witness ==
    /\ msg.type = "Execute"
    /\ response.err = "Unauthorized"
    /\ state # NONE
    /\ info.sender # state.owner
    /\ height >= state.expires
    /\ info.funds # state.counter_offer

(***************************************************************************)
(* C12: a create, transfer, exercise or burn that returns an error leaves  *)
(* the storage as it was and returns no message.                           *)
(***************************************************************************)
C12_FailureChangesNothing ==
    [][ ( /\ msg'.type \in {"Instantiate", "Transfer", "Execute", "Burn"}
          /\ response'.err # "ok" )
        => /\ response'.err \in {"Expired", "Unauthorized", "DiffCounterOffer",
                                 "NotFound", "CustomError"}
           /\ state' = state
           /\ contract_info' = contract_info
           /\ height' = height
           /\ response'.messages = <<>>
      ]_vars

C12_Witness ==
    /\ msg.type = "Instantiate"
    /\ response.err = "Expired"
    /\ state # NONE
    /\ state.owner # info.sender
    /\ state.counter_offer # msg.counter_offer

C14_BurnIgnoresCaller ==
    (msg = NoMsg)
    => \A s1 \in Addrs, s2 \in Addrs, funds \in Funds :
          burn_result(s1, funds) = burn_result(s2, funds)

C14_Witness ==
    /\ msg.type = "Burn"
    /\ response.err = "ok"
    /\ state # NONE
    /\ state.owner # state.creator
    /\ info.sender # state.owner
    /\ info.sender # state.creator
    /\ response = burn_result(state.creator, info.funds).response

(***************************************************************************)
(* C15: the slot is reusable: when the record is absent again after a      *)
(* settlement, a create with expires above the height succeeds and stores  *)
(* a fresh record whose creator and owner are the new caller.              *)
(***************************************************************************)
C15_SlotReusable ==
    [][ ( /\ msg'.type = "Instantiate"
          /\ state = NONE
          /\ payouts # <<>>
          /\ msg'.expires > height )
        => /\ response'.err = "ok"
           /\ state' # NONE
           /\ state'.creator = info'.sender
           /\ state'.owner = info'.sender
           /\ state'.collateral = info'.funds
           /\ state'.counter_offer = msg'.counter_offer
           /\ state'.expires = msg'.expires
      ]_vars

C15_Witness ==
    /\ msg.type = "Instantiate"
    /\ response.err = "ok"
    /\ payouts # <<>>
    /\ payouts[Len(payouts)] = "Execute"
    /\ state # NONE
    /\ state.creator = info.sender
    /\ state.owner = info.sender

(***************************************************************************)
(* C16: the collateral locked by one create is paid out at most once: of   *)
(* the calls that follow a successful create, before the next one, at most *)
(* one exercise or burn returns a message paying out the collateral.       *)
(***************************************************************************)
C16_CollateralPaidAtMostOnce == Len(payouts) <= 1

(***************************************************************************)
(* C17: exercise and burn exclude each other in time.  An exercise         *)
(* succeeds only below expires and a burn only at or after it, so no       *)
(* height allows both on one record; the height never decreases, so once   *)
(* a burn of a record is possible it stays possible while the record       *)
(* exists, and once a burn has paid out, no exercise of that record        *)
(* succeeds.                                                               *)
(***************************************************************************)
C17_ExerciseBurnExclusive ==
    [][ /\ (msg'.type = "Execute" /\ response'.err = "ok")
           => /\ state # NONE
              /\ height < state.expires
              /\ \A i \in 1..Len(payouts) : payouts[i] # "Burn"
        /\ (msg'.type = "Burn" /\ response'.err = "ok")
           => /\ state # NONE
              /\ height >= state.expires
        /\ height' >= height
        /\ ( /\ state # NONE
             /\ height >= state.expires
             /\ state' # NONE
             /\ ~(msg'.type = "Instantiate" /\ response'.err = "ok") )
           => height' >= state'.expires
      ]_vars

C17_Witness ==
    /\ msg.type = "Execute"
    /\ response.err = "Expired"
    /\ payouts # <<>>
    /\ payouts[1] = "Burn"
    /\ state # NONE
    /\ info.sender = state.owner
    /\ info.funds = state.counter_offer

(***************************************************************************)
(* C18: every message a call returns is addressed to the creator or to the *)
(* owner the record has at the time of the call; the collateral of a       *)
(* successful exercise goes to the caller, who is the current owner.       *)
(***************************************************************************)
C18_PaymentsOnlyToCreatorOrOwner ==
    [][ /\ \A i \in 1..Len(response'.messages) :
              /\ state # NONE
              /\ response'.messages[i].to_address \in {state.creator, state.owner}
        /\ (msg'.type = "Execute" /\ response'.err = "ok")
           => /\ Len(response'.messages) = 2
              /\ response'.messages[2].to_address = info'.sender
              /\ response'.messages[2].to_address = state.owner
              /\ response'.messages[2].amount = state.collateral
      ]_vars

C18_Witness ==
    /\ msg.type = "Execute"
    /\ response.err = "ok"
    /\ Len(response.messages) = 2
    /\ response.messages[2].to_address = info.sender
    /\ response.messages[1].to_address # info.sender
    /\ response.messages[2].amount # <<>>

(***************************************************************************)
(* The ledger keeps running: it keeps producing blocks, it takes every     *)
(* response, and a burn without funds keeps being attempted.               *)
(***************************************************************************)
BurnWithoutFunds ==
    /\ msg = NoMsg
    /\ \E sender \in Addrs : try_burn(sender, <<>>)
    /\ UNCHANGED payouts

LiveSpec ==
    /\ Init
    /\ [][Next]_vars
    /\ SF_vars(NextBlock)
    /\ WF_vars(Deliver)
    /\ SF_vars(BurnWithoutFunds)

(***************************************************************************)
(* The option in the slot, once created, is eventually paid out.           *)
(***************************************************************************)
OptionOpen == state # NONE /\ state.collateral # <<>> /\ payouts = <<>>

OptionPaid == payouts # <<>>

SlotEventuallyPaid == OptionOpen ~> OptionPaid

(***************************************************************************)
(* C19: collateral is never locked forever: with the height advancing and  *)
(* a burn without funds attempted, every created option eventually has its *)
(* collateral paid out, by an exercise or by a burn; so the option in the  *)
(* slot is eventually paid out, and no option leaves the slot unpaid.      *)
(***************************************************************************)
C19_CollateralEventuallyPaid ==
    /\ SlotEventuallyPaid
    /\ [][ (msg'.type = "Instantiate" /\ response'.err = "ok" /\ state # NONE)
           => (state.collateral = <<>> \/ OptionPaid)
         ]_vars

====
